---- MODULE Spec2Model ----
(***************************************************************************)
(* Model of light_curves/code/gaia_functions.py: the Gaia light-curve      *)
(* pipeline Gaia_get_lightcurve (cone search, mean photometry, bulk epoch  *)
(* photometry, light curves, long-format table) and Gaia_plot_lightcurves. *)
(*                                                                         *)
(* Conventions.  Python lists are TLA+ sequences (index k in Python is     *)
(* index k+1 here).  Distances are integers in units of 1/Scale arcsec.    *)
(* Magnitudes are integers in tenths of a magnitude.  A time is a record   *)
(* [day, ms]: whole days and milliseconds of the day.  A flux is an        *)
(* integer number of 1/FluxUnit mJy.  A magnitude error is an integer r    *)
(* standing for (2.5/ln 10) * r/1000 mag, so that the factor 2.5/ln(10)    *)
(* of the code is carried by the unit.                                     *)
(***************************************************************************)
EXTENDS Integers, Sequences, FiniteSets, TLC

VARIABLES coords_list, labels_list, pc, i, gaia_search, gaia_table,
          hasNameCol, gaia_phot, dl_keys, prod_tab,
          gaia_epoch_phot, this_df_lc, df_bound, df_lc, error, log,
          df_index, object_ids, nbr_objects, plotted

vars == <<coords_list, labels_list, pc, i, gaia_search, gaia_table,
          hasNameCol, gaia_phot, dl_keys, prod_tab,
          gaia_epoch_phot, this_df_lc, df_bound, df_lc, error, log,
          df_index, object_ids, nbr_objects, plotted>>

pipeVars == <<coords_list, labels_list, gaia_search, gaia_table,
              hasNameCol, gaia_phot, dl_keys, prod_tab,
              gaia_epoch_phot, this_df_lc, df_bound, df_lc, log>>

plotVars == <<df_index, object_ids, nbr_objects, plotted>>

----------------------------------------------------------------------------
(* Bounds of the model *)

\* longest coords_list; the object ids are 0 .. MaxObjects-1
MaxObjects == 2

\* distance units per arcsecond
Scale == 2

\* longest epoch photometry table drawn row by row
MaxEpochRows == 2

----------------------------------------------------------------------------
(* Sequences *)

Range(s) == {s[k] : k \in 1..Len(s)}

RECURSIVE WhereFrom(_, _)
WhereFrom(mask, k) ==
    IF k > Len(mask) THEN <<>>
    ELSE IF mask[k] THEN <<k>> \o WhereFrom(mask, k + 1)
         ELSE WhereFrom(mask, k + 1)

\* np.where(mask)[0]: the indexes of the true entries, ascending
Where(mask) == WhereFrom(mask, 1)

\* s[sel] for an index array sel
Take(s, sel) == [k \in 1..Len(sel) |-> s[sel[k]]]

\* the sequences of length at most n of distinct elements of S
InjSeqs(S, n) ==
    UNION {{s \in [1..k -> S] : \A a, b \in 1..k : a # b => s[a] # s[b]}
           : k \in 0..n}

RECURSIVE Pow10(_)
Pow10(k) == IF k <= 0 THEN 1 ELSE 10 * Pow10(k - 1)

RECURSIVE Digits(_)
Digits(n) == IF n < 10 THEN <<n>> ELSE Digits(n \div 10) \o <<n % 10>>

\* str(dd) of a non-negative integer: its decimal digits
Str(n) == Digits(n)

----------------------------------------------------------------------------
(* The archive: the Gaia source catalogue seen by the cone search *)

Bands == <<"G", "BP", "RP">>

BandSet == Range(Bands)

\* search_radius = u.Quantity(20, u.arcsec)
SearchRadius == 20 * Scale

\* the match tolerance 1*u.arcsec of the selection
MatchRadius == 1 * Scale

\* rows of gaiaedr3.gaia_source: mean magnitudes, fluxes (e/s) and errors
Catalog ==
    (7 :> [source_id |-> 7,
           mag |-> [G |-> 189, BP |-> 214, RP |-> 164],
           flux |-> [G |-> 1000, BP |-> 400, RP |-> 2000],
           flux_error |-> [G |-> 10, BP |-> 20, RP |-> 40]])
 @@ (42 :> [source_id |-> 42,
            mag |-> [G |-> 164, BP |-> 189, RP |-> 139],
            flux |-> [G |-> 5000, BP |-> 2000, RP |-> 8000],
            flux_error |-> [G |-> 50, BP |-> 100, RP |-> 400]])

CatalogSources == DOMAIN Catalog

\* distances a returned source can have: inside the match tolerance (two
\* values), on it, and on the edge of the cone
DistValues == {0, Scale - 1, Scale, SearchRadius}

\* what Gaia.cone_search_async(...).get_data() can hold: distinct sources of
\* the catalogue inside the cone, each with its distance
ConeResults ==
    {[k \in 1..Len(s) |-> [source_id |-> s[k], dist |-> d[k]]] :
        <<s, d>> \in UNION {{<<s, d>> : d \in [1..Len(s) -> DistValues]}
                            : s \in InjSeqs(CatalogSources, 2)}}

----------------------------------------------------------------------------
(* Gaia_retrieve_median_photometry *)

\* np.nanmin(dist) of a non-empty column
NanMin(rows) ==
    CHOOSE m \in {rows[k].dist : k \in 1..Len(rows)} :
        \A k \in 1..Len(rows) : m <= rows[k].dist

\* (dist < 1 arcsec) & (dist == nanmin(dist))
IsNearest(rows, r) == r.dist < MatchRadius /\ r.dist = NanMin(rows)

\* the selection without the test for the minimal distance
SelMinBad(rows) ==
    IF Len(rows) > 0
    THEN Where([k \in 1..Len(rows) |-> rows[k].dist < MatchRadius])
    ELSE <<>>

\* sel_min: the indexes of the rows of the search to keep
SelMin(rows) ==
    IF Len(rows) > 0
    THEN Where([k \in 1..Len(rows) |-> IsNearest(rows, rows[k])])
    ELSE <<>>

\* the rows of the search with the column input_object_name added; of the
\* columns of the search a row keeps source_id, which stands for the
\* photometry columns of that source (Catalog), the ones read later
Named(rows, objectid) ==
    [k \in 1..Len(rows) |->
        [source_id |-> rows[k].source_id, input_object_name |-> objectid]]

\* one iteration of the loop over coords_list: the cone search (which blocks
\* until the job is complete) and the selection of the nearest match
ConeSearch ==
    /\ pc = "cone"
    /\ i <= Len(coords_list)
    /\ \E res \in ConeResults :
          /\ gaia_search' = res
          /\ gaia_table' =
                gaia_table \o Take(Named(res, coords_list[i]), SelMin(res))
          /\ hasNameCol' = (hasNameCol \/ Len(res) > 0)
    /\ log' = Append(log, [req |-> "cone_search", arg |-> i])
    /\ i' = i + 1
    /\ UNCHANGED <<coords_list, labels_list, pc, gaia_phot,
                   dl_keys, prod_tab, gaia_epoch_phot, this_df_lc, df_bound,
                   df_lc, error>>
    /\ UNCHANGED plotVars

\* the loop is over: return(gaia_table)
Gaia_retrieve_median_photometry ==
    /\ pc = "cone"
    /\ i > Len(coords_list)
    /\ pc' = "extract"
    /\ gaia_search' = <<>>
    /\ i' = 1
    /\ UNCHANGED <<coords_list, labels_list, gaia_table, hasNameCol,
                   gaia_phot, dl_keys, prod_tab, gaia_epoch_phot,
                   this_df_lc, df_bound, df_lc, error, log>>
    /\ UNCHANGED plotVars

----------------------------------------------------------------------------
(* Times: astropy.time.Time, formats jd, isot and mjd *)

MsPerDay == 24 * 60 * 60 * 1000

AddTime(a, b) ==
    LET s == a.ms + b.ms
    IN  [day |-> a.day + b.day + (s \div MsPerDay), ms |-> s % MsPerDay]

SubTime(a, b) ==
    LET s == a.ms - b.ms
    IN  IF s >= 0 THEN [day |-> a.day - b.day, ms |-> s]
        ELSE [day |-> a.day - b.day - 1, ms |-> s + MsPerDay]

\* the proleptic Gregorian date of the day z days after 1970-01-01
CivilFromDays(z) ==
    LET zz  == z + 719468
        era == zz \div 146097
        doe == zz - era * 146097
        yoe == (doe - (doe \div 1460) + (doe \div 36524) - (doe \div 146096))
                  \div 365
        doy == doe - (365 * yoe + (yoe \div 4) - (yoe \div 100))
        mp  == (5 * doy + 2) \div 153
        d   == doy - ((153 * mp + 2) \div 5) + 1
        m   == IF mp < 10 THEN mp + 3 ELSE mp - 9
        y   == yoe + era * 400 + (IF m <= 2 THEN 1 ELSE 0)
    IN  [year |-> y, month |-> m, day |-> d]

\* the number of days from 1970-01-01 to the date y-m-d
DaysFromCivil(y, m, d) ==
    LET yy  == IF m <= 2 THEN y - 1 ELSE y
        era == yy \div 400
        yoe == yy - era * 400
        doy == ((153 * (IF m > 2 THEN m - 3 ELSE m + 9) + 2) \div 5) + d - 1
        doe == yoe * 365 + (yoe \div 4) - (yoe \div 100) + doy
    IN  era * 146097 + doe - 719468

\* Time(jd, format="jd").isot: the calendar date and time of day, to the ms.
\* JD 2400000.5 is MJD 0, the midnight of 1858-11-17, 40587 days before
\* 1970-01-01.
JdToIsot(jd) ==
    LET mjd == SubTime(jd, [day |-> 2400000, ms |-> MsPerDay \div 2])
        c   == CivilFromDays(mjd.day - 40587)
    IN  [year |-> c.year, month |-> c.month, day |-> c.day, ms |-> mjd.ms]

\* Time(isot, format="isot").mjd
IsotToMjd(t) ==
    [day |-> DaysFromCivil(t.year, t.month, t.day) + 40587, ms |-> t.ms]

\* time + 2455197.5
GaiaTimeOffset == [day |-> 2455197, ms |-> MsPerDay \div 2]

\* Time("2015-09-24T19:40:33.468", format="isot")
FixedEpoch ==
    [year |-> 2015, month |-> 9, day |-> 24,
     ms |-> ((19 * 60 + 40) * 60 + 33) * 1000 + 468]

----------------------------------------------------------------------------
(* Magnitudes and fluxes *)

\* a flux is a number of 1/FluxUnit mJy
FluxUnit == Pow10(5)

\* the AB zero point 23.9 mag (1 microJy), in tenths of a magnitude
MagZero == 239

\* 2.5 mag per decade of flux (the factor -0.4), in tenths of a magnitude
MagPerDecade == 25

\* 2.5/np.log(10) * flux_error/flux, in units of (2.5/ln 10)/1000 mag
MagErr(flux_error, flux) == (1000 * flux_error) \div flux

\* the epoch branch: y2 = 10**(-0.4*(y - 23.9))/1e3
EpochFlux(y) ==
    (Pow10((MagZero - y) \div MagPerDecade) * FluxUnit) \div 1000

\* the epoch branch: dy2 = dy / 2.5 * np.log(10) * y2
EpochFluxErr(dy, y2) == (dy * y2) \div 1000

\* the flux in Jy instead of mJy
MeanFluxBad(y) ==
    (Pow10((MagZero - y) \div MagPerDecade) * FluxUnit) \div 1000000

\* the mean-photometry branch: y2 = 10**(-0.4*(y - 23.9))/1e3
MeanFlux(y) ==
    (Pow10((MagZero - y) \div MagPerDecade) * FluxUnit) \div 1000

\* the mean-photometry branch: dy2 = dy / 2.5 * np.log(10) * y2
MeanFluxErr(dy, y2) == (dy * y2) \div 1000

\* "Gaia {}".format(band.lower())
BandName(band) ==
    CASE band = "G" -> "Gaia g"
      [] band = "BP" -> "Gaia bp"
      [] band = "RP" -> "Gaia rp"

----------------------------------------------------------------------------
(* Gaia_extract_median_photometry *)

\* the row of gaia_phot for a row of gaia_table: the mean magnitudes, their
\* errors from the flux errors, source_id and input_object_name
PhotRow(r) ==
    [source_id |-> r.source_id,
     input_object_name |-> r.input_object_name,
     mag |-> Catalog[r.source_id].mag,
     mag_error |-> [b \in BandSet |->
                      MagErr(Catalog[r.source_id].flux_error[b],
                             Catalog[r.source_id].flux[b])]]

\* gaia_table["input_object_name"] raises KeyError when no cone search
\* returned a row, for the column is added to non-empty results only
Gaia_extract_median_photometry ==
    /\ pc = "extract"
    /\ IF hasNameCol
       THEN /\ gaia_phot' = [k \in 1..Len(gaia_table) |-> PhotRow(gaia_table[k])]
            /\ pc' = "epoch"
            /\ error' = error
       ELSE /\ pc' = "raised"
            /\ error' = "KeyError"
            /\ gaia_phot' = gaia_phot
    /\ UNCHANGED <<coords_list, labels_list, i, gaia_search, gaia_table,
                   hasNameCol, dl_keys, prod_tab, gaia_epoch_phot,
                   this_df_lc, df_bound, df_lc, log>>
    /\ UNCHANGED plotVars

----------------------------------------------------------------------------
(* Gaia_retrieve_EPOCH_PHOTOMETRY *)

EpochRow(band, rejected, time, mag, flux, flux_error) ==
    [band |-> band, rejected_by_photometry |-> rejected, time |-> time,
     mag |-> mag, flux |-> flux, flux_error |-> flux_error]

T1 == [day |-> 1700, ms |-> 0]

T2 == [day |-> 2000, ms |-> 64800000]

\* the epoch photometry tables the archive can hold for a source: usable
\* rows in every band, only rejected rows or rows of no band, G rows only
EpochProducts ==
    { << EpochRow("G", FALSE, T1, 189, 1000, 10),
         EpochRow("BP", FALSE, T1, 214, 400, 20),
         EpochRow("G", TRUE, T2, 164, 5000, 500),
         EpochRow("RP", FALSE, T2, 164, 2000, 20) >>,
      << EpochRow("G", TRUE, T1, 189, 1000, 10),
         EpochRow("", FALSE, T2, 214, 400, 20) >>,
      << EpochRow("G", FALSE, T2, 139, 8000, 400),
         EpochRow("G", FALSE, T1, 164, 5000, 50) >> }

\* the ids the datalink service may answer for: the catalogue's sources and
\* one more
DatalinkSources == CatalogSources \cup {105}

\* 'EPOCH_PHOTOMETRY-Gaia DR3 {}.xml'.format(dd)
DlKey(dd) == <<"EPOCH_PHOTOMETRY-Gaia DR3 ", Str(dd), ".xml">>

\* what Gaia.load_data can return: products for some of the sources
DatalinkResponses ==
    UNION {[{DlKey(s) : s \in S} -> EpochProducts] : S \in SUBSET DatalinkSources}

\* a loop over the keys of datalink instead of over ids
ProdTabBad(ids, datalink) ==
    [key \in {k[2] : k \in DOMAIN datalink} |->
        datalink[<<"EPOCH_PHOTOMETRY-Gaia DR3 ", key, ".xml">>]]

\* the loop over ids: prod_tab[str(dd)] for the ids whose key is in datalink
ProdTab(ids, datalink) ==
    [key \in {Str(ids[k]) : k \in {n \in 1..Len(ids) :
                                      DlKey(ids[n]) \in DOMAIN datalink}} |->
        datalink[<<"EPOCH_PHOTOMETRY-Gaia DR3 ", key, ".xml">>]]

\* ids = list(gaia_phot["source_id"])
SourceIdColumn(phot) == [k \in 1..Len(phot) |-> phot[k].source_id]

Gaia_retrieve_EPOCH_PHOTOMETRY ==
    /\ pc = "epoch"
    /\ \E datalink \in DatalinkResponses :
          /\ dl_keys' = DOMAIN datalink
          /\ prod_tab' = ProdTab(SourceIdColumn(gaia_phot), datalink)
    /\ log' = Append(log, [req |-> "load_data", arg |-> SourceIdColumn(gaia_phot)])
    /\ pc' = "lightcurves"
    /\ UNCHANGED <<coords_list, labels_list, i, gaia_search, gaia_table,
                   hasNameCol, gaia_phot, gaia_epoch_phot, this_df_lc,
                   df_bound, df_lc, error>>
    /\ UNCHANGED plotVars

----------------------------------------------------------------------------
(* Gaia_mk_lightcurves *)

\* sel_band: the rows of the band that photometry did not reject
\* the selection by band alone, rejected rows included
SelBandBad(tab, band) ==
    Where([k \in 1..Len(tab) |-> tab[k].band = band])

SelBand(tab, band) ==
    Where([k \in 1..Len(tab) |->
              tab[k].band = band /\ tab[k].rejected_by_photometry = FALSE])

\* output[key][band]: time_jd, time_isot, mag, magerr of the selected rows
LightCurve(tab, band) ==
    LET rows == Take(tab, SelBand(tab, band))
    IN  [k \in 1..Len(rows) |->
            [time_jd |-> AddTime(rows[k].time, GaiaTimeOffset),
             time_isot |-> JdToIsot(AddTime(rows[k].time, GaiaTimeOffset)),
             mag |-> rows[k].mag,
             magerr |-> MagErr(rows[k].flux_error, rows[k].flux)]]

Gaia_mk_lightcurves ==
    /\ pc = "lightcurves"
    /\ gaia_epoch_phot' =
          [key \in DOMAIN prod_tab |->
              [b \in BandSet |-> LightCurve(prod_tab[key], b)]]
    /\ pc' = "multiindex"
    /\ i' = 1
    /\ UNCHANGED <<coords_list, labels_list, gaia_search, gaia_table,
                   hasNameCol, gaia_phot, dl_keys, prod_tab, this_df_lc,
                   df_bound, df_lc, error, log>>
    /\ UNCHANGED plotVars

----------------------------------------------------------------------------
(* Gaia_mk_MultiIndex *)

\* sel = np.where(objectid == gaia_phot["input_object_name"])[0]
SelObject(phot, objectid) ==
    Where([k \in 1..Len(phot) |-> phot[k].input_object_name = objectid])

\* dfsingle of a band in the epoch branch
EpochSingle(objectid, lab, lc, band) ==
    [k \in 1..Len(lc[band]) |->
        [objectid |-> objectid, label |-> lab, band |-> BandName(band),
         time |-> IsotToMjd(lc[band][k].time_isot),
         flux |-> EpochFlux(lc[band][k].mag),
         err |-> EpochFluxErr(lc[band][k].magerr, EpochFlux(lc[band][k].mag))]]

\* dfsingle of a band in the mean-photometry branch
MeanSingle(objectid, lab, phot, sel, band) ==
    [k \in 1..Len(sel) |->
        [objectid |-> objectid, label |-> lab, band |-> BandName(band),
         time |-> IsotToMjd(FixedEpoch),
         flux |-> MeanFlux(phot[sel[k]].mag[band]),
         err |-> MeanFluxErr(phot[sel[k]].mag_error[band],
                             MeanFlux(phot[sel[k]].mag[band]))]]

RECURSIVE ConcatBands(_, _)
\* the dfsingle of the bands from the k-th on, in the order G, BP, RP
ConcatBands(single, k) ==
    IF k > Len(Bands) THEN <<>> ELSE single[Bands[k]] \o ConcatBands(single, k + 1)

\* lab = labels_list[objectid]
LabelOf(labels, coords, objectid) == labels[objectid + 1]

\* the rows the loop body adds for an object with rows sel in gaia_phot
ObjectRows(objectid, lab, phot, epoch_phot, sel) ==
    LET source_id == phot[sel[1]].source_id
    IN  IF Str(source_id) \in DOMAIN epoch_phot
        THEN ConcatBands([b \in BandSet |->
                 EpochSingle(objectid, lab, epoch_phot[Str(source_id)], b)], 1)
        ELSE ConcatBands([b \in BandSet |->
                 MeanSingle(objectid, lab, phot, sel, b)], 1)

\* one iteration of the loop over coords_list
MultiIndexStep ==
    /\ pc = "multiindex"
    /\ i <= Len(coords_list)
    /\ LET objectid == coords_list[i]
           sel == SelObject(gaia_phot, objectid)
       IN  IF objectid >= Len(labels_list)
           THEN /\ pc' = "raised"
                /\ error' = "IndexError"
                /\ UNCHANGED <<i, this_df_lc, df_bound>>
           ELSE /\ UNCHANGED <<pc, error>>
                /\ i' = i + 1
                /\ IF Len(sel) > 0
                   THEN /\ this_df_lc' = this_df_lc \o
                              ObjectRows(objectid,
                                  LabelOf(labels_list, coords_list, objectid),
                                  gaia_phot, gaia_epoch_phot, sel)
                        /\ df_bound' = TRUE
                   ELSE UNCHANGED <<this_df_lc, df_bound>>
    /\ UNCHANGED <<coords_list, labels_list, gaia_search, gaia_table,
                   hasNameCol, gaia_phot, dl_keys, prod_tab, gaia_epoch_phot,
                   df_lc, log>>
    /\ UNCHANGED plotVars

\* return(this_df_lc): the name is unbound when no object had a match
Gaia_mk_MultiIndex ==
    /\ pc = "multiindex"
    /\ i > Len(coords_list)
    /\ IF df_bound
       THEN pc' = "append" /\ error' = error
       ELSE pc' = "raised" /\ error' = "UnboundLocalError"
    /\ UNCHANGED <<i>>
    /\ UNCHANGED pipeVars
    /\ UNCHANGED plotVars

----------------------------------------------------------------------------
(* Gaia_get_lightcurve *)

ObjectIds == 0..(MaxObjects - 1)

LabelPool == <<"AGN", "SN", "TDE", "CLAGN", "QSO">>

\* coords_list: (id, coordinate) tuples with distinct ids; labels_list: one
\* label for each source
Init ==
    /\ coords_list \in InjSeqs(ObjectIds, MaxObjects)
    /\ labels_list = SubSeq(LabelPool, 1, Len(coords_list))
    /\ pc = "cone"
    /\ i = 1
    /\ gaia_search = <<>>
    /\ gaia_table = <<>>
    /\ hasNameCol = FALSE
    /\ gaia_phot = <<>>
    /\ dl_keys = {}
    /\ prod_tab = <<>>
    /\ gaia_epoch_phot = <<>>
    /\ this_df_lc = <<>>
    /\ df_bound = FALSE
    /\ df_lc = <<>>
    /\ error = "none"
    /\ log = <<>>
    /\ df_index = {}
    /\ object_ids = <<>>
    /\ nbr_objects = 0
    /\ plotted = {}

\* df_lc = MultiIndexDFObject(); df_lc.append(df_lc_gaia); return(df_lc)
Gaia_get_lightcurve ==
    /\ pc = "append"
    /\ df_lc' = this_df_lc
    /\ pc' = "done"
    /\ UNCHANGED <<coords_list, labels_list, i, gaia_search, gaia_table,
                   hasNameCol, gaia_phot, dl_keys, prod_tab, gaia_epoch_phot,
                   this_df_lc, df_bound, error, log>>
    /\ UNCHANGED plotVars

Next ==
    \/ ConeSearch
    \/ Gaia_retrieve_median_photometry
    \/ Gaia_extract_median_photometry
    \/ Gaia_retrieve_EPOCH_PHOTOMETRY
    \/ Gaia_mk_lightcurves
    \/ MultiIndexStep
    \/ Gaia_mk_MultiIndex
    \/ Gaia_get_lightcurve

Spec == Init /\ [][Next]_vars

----------------------------------------------------------------------------
(* Gaia_plot_lightcurves *)

BandNames == {BandName(b) : b \in BandSet}

RECURSIVE SortedSeq(_)
\* the elements of a set of integers in ascending order
SortedSeq(S) ==
    IF S = {} THEN <<>>
    ELSE LET m == CHOOSE x \in S : \A y \in S : x <= y
         IN  <<m>> \o SortedSeq(S \ {m})

\* list(df_lc.data.index.levels[0])
Levels0(index) == SortedSeq({e[1] : e \in index})

\* object_ids[0:int(nbr_objects)]
FirstObjects(ids, nbr) ==
    SubSeq(ids, 1, IF nbr < Len(ids) THEN nbr ELSE Len(ids))

RECURSIVE PlottedBands(_, _, _)
\* the bands of dd drawn by the loop over G, BP, RP from the k-th on: .loc
\* raises KeyError at the first band for which dd has no row
PlottedBands(index, dd, k) ==
    IF k > Len(Bands) \/ <<dd, BandName(Bands[k])>> \notin index THEN {}
    ELSE {BandName(Bands[k])} \cup PlottedBands(index, dd, k + 1)

\* whether the body of the try raises for dd
PlotRaises(index, dd) == PlottedBands(index, dd, 1) # BandNames

\* a handler that lets the exception leave the function
ExceptReraise(raised) == IF raised THEN "raised" ELSE "plot"

\* except: pass -- the loop goes on with the next object
ExceptPass(raised) == "plot"

\* one iteration of the loop over the first nbr_objects object ids
PlotObject ==
    /\ pc = "plot"
    /\ i <= Len(FirstObjects(object_ids, nbr_objects))
    /\ LET dd == object_ids[i]
       IN  /\ plotted' = plotted \cup
                  {<<dd, b>> : b \in PlottedBands(df_index, dd, 1)}
           /\ pc' = ExceptPass(PlotRaises(df_index, dd))
           /\ error' = IF pc' = "raised" THEN "KeyError" ELSE error
    /\ i' = i + 1
    /\ UNCHANGED <<df_index, object_ids, nbr_objects>>
    /\ UNCHANGED pipeVars

\* the loop is over: titles, legends, plt.show(), return(True)
Gaia_plot_lightcurves ==
    /\ pc = "plot"
    /\ i > Len(FirstObjects(object_ids, nbr_objects))
    /\ pc' = "plotted"
    /\ UNCHANGED <<i, error>>
    /\ UNCHANGED plotVars
    /\ UNCHANGED pipeVars

\* a light-curve table with rows for some (objectid, band) pairs, and the
\* number of sources to plot
InitPlot ==
    /\ df_index \in SUBSET (ObjectIds \X BandNames)
    /\ object_ids = Levels0(df_index)
    /\ nbr_objects \in 0..(MaxObjects + 1)
    /\ plotted = {}
    /\ pc = "plot"
    /\ i = 1
    /\ error = "none"
    /\ coords_list = <<>>
    /\ labels_list = <<>>
    /\ gaia_search = <<>>
    /\ gaia_table = <<>>
    /\ hasNameCol = FALSE
    /\ gaia_phot = <<>>
    /\ dl_keys = {}
    /\ prod_tab = <<>>
    /\ gaia_epoch_phot = <<>>
    /\ this_df_lc = <<>>
    /\ df_bound = FALSE
    /\ df_lc = <<>>
    /\ log = <<>>

NextPlot ==
    \/ PlotObject
    \/ Gaia_plot_lightcurves

SpecPlot == InitPlot /\ [][NextPlot]_vars /\ WF_vars(NextPlot)

----------------------------------------------------------------------------
(* Gaia_mk_lightcurves on its own *)

\* the rows an EPOCH_PHOTOMETRY table can hold: a band (G, BP, RP or none of
\* them), rejected or not, one of two measurements
EpochRowValues ==
    {EpochRow(b, rej, m[1], m[2], m[3], m[4]) :
        b \in BandSet \cup {""}, rej \in BOOLEAN,
        m \in {<<T1, 189, 1000, 10>>, <<T2, 164, 5000, 50>>}}

\* the tables of at most MaxEpochRows such rows, in any order
ProductTables == UNION {[1..n -> EpochRowValues] : n \in 0..MaxEpochRows}

\* the dictionaries prod_tab with keys among str(7) and str(42)
ProdTabs ==
    {<<>>}
    \cup {Str(7) :> a : a \in ProductTables}
    \cup {Str(42) :> b : b \in EpochProducts}
    \cup {(Str(7) :> a) @@ (Str(42) :> b) :
              a \in ProductTables, b \in EpochProducts}

\* Gaia_mk_lightcurves is about to run on a dictionary of product tables
InitLC ==
    /\ prod_tab \in ProdTabs
    /\ pc = "lightcurves"
    /\ i = 1
    /\ error = "none"
    /\ coords_list = <<>>
    /\ labels_list = <<>>
    /\ gaia_search = <<>>
    /\ gaia_table = <<>>
    /\ hasNameCol = FALSE
    /\ gaia_phot = <<>>
    /\ dl_keys = {}
    /\ gaia_epoch_phot = <<>>
    /\ this_df_lc = <<>>
    /\ df_bound = FALSE
    /\ df_lc = <<>>
    /\ log = <<>>
    /\ df_index = {}
    /\ object_ids = <<>>
    /\ nbr_objects = 0
    /\ plotted = {}

NextLC == Gaia_mk_lightcurves

SpecLC == InitLC /\ [][NextLC]_vars

----------------------------------------------------------------------------
(* Properties *)

\* the rows of a table that carry the object id o
RowsOf(table, o) == SelectSeq(table, LAMBDA r : r.input_object_name = o)

\* the rows of a long-format table with objectid o
DfRowsOf(table, o) == SelectSeq(table, LAMBDA r : r.objectid = o)

\* the object the last iteration of the cone-search loop was for
LastSearched == coords_list[i - 1]

AfterConeSearch == pc = "cone" /\ i > 1

\* C1: after any number of cone searches the table holds at most one row per
\* input coordinate: no input_object_name is on two rows, and there are no
\* more rows than coordinates.
C1_AtMostOneRowPerCoordinate ==
    /\ \A o \in ObjectIds : Len(RowsOf(gaia_table, o)) <= 1
    /\ Len(gaia_table) <= Len(coords_list)

\* C2 as stated: a coordinate is matched exactly when the cone search returned
\* a source within search_radius, the matched row being the source of minimal
\* distance.
C2_MatchedIffWithinSearchRadius ==
    AfterConeSearch =>
        LET rows == RowsOf(gaia_table, LastSearched)
        IN  /\ (rows # <<>>) <=>
                  (\E k \in 1..Len(gaia_search) :
                      gaia_search[k].dist <= SearchRadius)
            /\ \A r \in Range(rows) : \E k \in 1..Len(gaia_search) :
                  /\ gaia_search[k].source_id = r.source_id
                  /\ \A j \in 1..Len(gaia_search) :
                        gaia_search[k].dist <= gaia_search[j].dist

\* C2, amended: a coordinate is matched exactly when the cone search returned
\* a source nearer than 1 arcsec; its rows are then exactly the returned
\* sources of minimal distance, in the order of the search; a coordinate
\* whose nearest source is at 1 arcsec or more contributes no row.
C2_MatchedIffNearerThanOneArcsec ==
    AfterConeSearch =>
        LET rows == RowsOf(gaia_table, LastSearched)
            nearest == SelectSeq(gaia_search,
                          LAMBDA c : \A k \in 1..Len(gaia_search) :
                                        c.dist <= gaia_search[k].dist)
        IN  IF \E k \in 1..Len(gaia_search) : gaia_search[k].dist < Scale
            THEN /\ rows # <<>>
                 /\ rows = Named(nearest, LastSearched)
            ELSE rows = <<>>

\* a search that returned a source nearer than 1 arcsec and a farther one,
\* the farther one first, and matched the nearer
C2_Witness ==
    /\ AfterConeSearch
    /\ Len(gaia_search) = 2
    /\ gaia_search[2].dist < gaia_search[1].dist
    /\ gaia_search[1].dist < Scale
    /\ Len(RowsOf(gaia_table, LastSearched)) = 1

\* every object id is a position of labels_list, so that labels_list[objectid]
\* is defined
LabelsIndexable == \A o \in Range(coords_list) : o < Len(labels_list)

\* C3: Gaia_mk_MultiIndex raises no error for an object that is absent from
\* gaia_phot, emits no row for it, and returns a table normally, also when
\* no object has a match (stated for object ids that index labels_list).
C3_MissingMatchesSkipped ==
    LabelsIndexable =>
        /\ ~(pc = "raised" /\ error \in {"IndexError", "UnboundLocalError"})
        /\ \A r \in Range(this_df_lc) : SelObject(gaia_phot, r.objectid) # <<>>

\* C4: the returned table has at least one row for every input object with a
\* row in gaia_phot, and none for the others.
C4_EveryMatchedObjectInOutput ==
    pc = "done" =>
        \A o \in Range(coords_list) :
            (SelObject(gaia_phot, o) # <<>>) <=> (DfRowsOf(df_lc, o) # <<>>)

\* 2015-09-24T19:40:33.468 as a Modified Julian Date
FixedEpochMjd == [day |-> 57289, ms |-> 70833468]

\* C5: a matched object whose source has epoch photometry gets no row at the
\* fixed epoch; one whose source has none gets exactly one row per band
\* G, BP, RP, all at the fixed epoch 2015-09-24T19:40:33.468.
C5_EpochElseMeanOnePerBand ==
    pc \in {"append", "done"} =>
        \A o \in Range(coords_list) :
            LET sel == SelObject(gaia_phot, o)
                rows == DfRowsOf(this_df_lc, o)
            IN  sel # <<>> =>
                  IF Str(gaia_phot[sel[1]].source_id) \in DOMAIN gaia_epoch_phot
                  THEN \A r \in Range(rows) : r.time # FixedEpochMjd
                  ELSE /\ \A r \in Range(rows) : r.time = FixedEpochMjd
                       /\ \A b \in BandNames :
                             Len(SelectSeq(rows, LAMBDA r : r.band = b)) = 1

\* C6: every row has a band among Gaia g, Gaia bp, Gaia rp, and the rows of
\* the k-th entry of coords_list carry the k-th label of labels_list.
C6_LabelOfIthEntry ==
    \A r \in Range(this_df_lc) :
        /\ r.band \in {"Gaia g", "Gaia bp", "Gaia rp"}
        /\ \E k \in 1..Len(coords_list) :
              coords_list[k] = r.objectid /\ r.label = labels_list[k]

\* the (object, band) pairs the plot must show: for each of the first
\* nbr_objects objects, the bands up to its first band without rows
ExpectedPlotted ==
    {<<object_ids[k], BandName(Bands[j])>> :
        <<k, j>> \in {<<k, j>> \in (1..Len(object_ids)) \X (1..Len(Bands)) :
                        /\ k <= nbr_objects
                        /\ \A h \in 1..j :
                              <<object_ids[k], BandName(Bands[h])>> \in df_index}}

C7_Swallowed ==
    /\ error = "none"
    /\ pc \in {"plot", "plotted"}
    /\ Cardinality({e[1] : e \in plotted}) <= nbr_objects
    /\ pc = "plotted" => plotted = ExpectedPlotted

\* C7: a failure while plotting an object never leaves the function and
\* never keeps a later object among the first nbr_objects from being
\* plotted; at most nbr_objects objects are plotted; the function completes.
C7_PlotFailuresSwallowed == []C7_Swallowed /\ <>(pc = "plotted")

\* the plot of an object failed and a later object was plotted in all bands
C7_Witness ==
    /\ pc = "plotted"
    /\ \E k \in 1..Len(object_ids) : \E h \in 1..Len(object_ids) :
          /\ k < h
          /\ h <= nbr_objects
          /\ \E b \in BandNames : <<object_ids[k], b>> \notin df_index
          /\ \A b \in BandNames : <<object_ids[h], b>> \in plotted

\* the flux in mJy of an AB magnitude m: 10^((23.9 - m)/2.5) microJy
RefFlux(m) == Pow10((239 - m) \div 25) * (FluxUnit \div 1000)

\* the flux error in mJy: the relative error of the measured flux
RefErr(flux_error, flux, m) == (flux_error * RefFlux(m)) \div flux

\* the MJD of a Gaia time, counted in days from 2010-01-01T00:00 = MJD 55197
RefMjd(t) == AddTime(t, [day |-> 55197, ms |-> 0])

\* C8: every row of the returned table, of the epoch branch and of the
\* mean-photometry branch, carries the flux and flux error in mJy of the
\* magnitude it comes from and its time as a Modified Julian Date.
C8_UnitConsistency ==
    \A r \in Range(df_lc) :
        LET sel == SelObject(gaia_phot, r.objectid)
            key == Str(gaia_phot[sel[1]].source_id)
        IN  IF key \in DOMAIN prod_tab
            THEN \E e \in Range(prod_tab[key]) :
                    /\ e.band \in BandSet
                    /\ r.band = BandName(e.band)
                    /\ r.time = RefMjd(e.time)
                    /\ r.flux = RefFlux(e.mag)
                    /\ r.err = RefErr(e.flux_error, e.flux, e.mag)
            ELSE \E k \in Range(sel) : \E b \in BandSet :
                    LET c == Catalog[gaia_phot[k].source_id]
                    IN  /\ r.band = BandName(b)
                        /\ r.time = FixedEpochMjd
                        /\ r.flux = RefFlux(c.mag[b])
                        /\ r.err = RefErr(c.flux_error[b], c.flux[b], c.mag[b])

\* a returned table with rows of both branches
C8_Witness ==
    /\ pc = "done"
    /\ \E r \in Range(df_lc) : r.time = FixedEpochMjd
    /\ \E r \in Range(df_lc) : r.time # FixedEpochMjd

\* C9: when the pipeline has ended, the archive saw one cone search per
\* coordinate, in the order of coords_list, and then exactly one bulk epoch
\* request, for the source_ids of the matched rows (stated for a coords_list
\* that is not empty).
C9_StagesInOrder ==
    (coords_list # <<>> /\ pc \in {"done", "raised"}) =>
        /\ Len(log) = Len(coords_list) + 1
        /\ \A k \in 1..Len(coords_list) :
              log[k] = [req |-> "cone_search", arg |-> k]
        /\ log[Len(log)] =
              [req |-> "load_data",
               arg |-> [k \in 1..Len(gaia_table) |-> gaia_table[k].source_id]]

\* the ids of the bulk request, once it has been made
Requested == {log[k].arg : k \in {n \in 1..Len(log) : log[n].req = "load_data"}}

\* C10: the keys of prod_tab are exactly str(id) for the requested ids whose
\* product is in the datalink response.
C10_KeysAreRequestedAndPresent ==
    \A ids \in Requested :
        /\ \A s \in DatalinkSources :
              (Str(s) \in DOMAIN prod_tab) <=>
                  (s \in Range(ids) /\ DlKey(s) \in dl_keys)
        /\ \A key \in DOMAIN prod_tab : \E s \in DatalinkSources : key = Str(s)

\* a request for two ids, one with a product and one without, answered with
\* a product for an id that was not requested
C10_Witness ==
    /\ \E ids \in Requested : Range(ids) = {7, 42}
    /\ DlKey(105) \in dl_keys
    /\ Cardinality(DOMAIN prod_tab) = 1

\* the indexes of the rows of tab of the band b that were not rejected
Usable(tab, b) ==
    {k \in 1..Len(tab) : tab[k].band = b /\ ~tab[k].rejected_by_photometry}

\* C11: once Gaia_mk_lightcurves has run, its output has the keys of
\* prod_tab, every entry has exactly the bands G, BP and RP, and the table
\* of a band holds exactly the rows of the source of that band that were not
\* rejected, in their original order.
C11_LightCurvesAreUsableRows ==
    pc # "lightcurves" =>
        /\ DOMAIN gaia_epoch_phot = DOMAIN prod_tab
        /\ \A key \in DOMAIN gaia_epoch_phot :
              /\ DOMAIN gaia_epoch_phot[key] = {"G", "BP", "RP"}
              /\ \A b \in {"G", "BP", "RP"} :
                    LET tab == prod_tab[key]
                        lc == gaia_epoch_phot[key][b]
                    IN  /\ Len(lc) = Cardinality(Usable(tab, b))
                        /\ \A k \in Usable(tab, b) :
                              LET n == Cardinality({j \in Usable(tab, b) : j <= k})
                              IN  /\ lc[n].mag = tab[k].mag
                                  /\ lc[n].time_jd =
                                        AddTime(tab[k].time,
                                                [day |-> 2455197, ms |-> 43200000])

\* light curves made of a table whose first row is a rejected G row and
\* whose second is a usable G row of another measurement: the G light curve
\* has one row
C11_Witness ==
    /\ pc # "lightcurves"
    /\ \E key \in DOMAIN prod_tab :
          LET tab == prod_tab[key]
          IN  /\ Len(tab) >= 2
              /\ tab[1].band = "G" /\ tab[1].rejected_by_photometry
              /\ tab[2].band = "G" /\ ~tab[2].rejected_by_photometry
              /\ tab[1].mag # tab[2].mag
              /\ Len(gaia_epoch_phot[key]["G"]) = 1

====
